---- MODULE Spec2Model ----
(***************************************************************************)
(* A model of the naive suffix trie of suffix_tree/naive_suffix_trie.py:   *)
(* the node arena (edges, suffix_link), the online construction            *)
(* _build_suffix_trie, one step of its loops per action, and the three     *)
(* queries substring, suffix and occurrences, evaluated on the built trie. *)
(***************************************************************************)
EXTENDS Integers, Sequences, FiniteSets, TLC

VARIABLES string, pc, edges, suffix_link, root, deepest, curr, prev,
          character, idx, raised, result

vars == <<string, pc, edges, suffix_link, root, deepest, curr, prev,
          character, idx, raised, result>>

(* ---------------------------------------------------------------- bounds *)

MaxLen == 4

MaxQueryLen == 4

Alphabet == {"a", "b", "c", "d"}

RECURSIVE SeqsOfLen(_)
SeqsOfLen(n) ==
    IF n = 0 THEN {<<>>}
    ELSE {Append(s, x) : s \in SeqsOfLen(n - 1), x \in Alphabet}

SeqsUpTo(n) == UNION {SeqsOfLen(k) : k \in 0..n}

Strings == SeqsUpTo(MaxLen)

Queries == SeqsUpTo(MaxQueryLen)

(* ------------------------------------------------------------ node graph *)

\* Python's None: the absent node reference.
None == 0

\* The outcome of a dictionary lookup that raises KeyError.
KeyError == -1

\* The outcome of an attribute access on None.
AttributeError == -2

Nodes == 1..Len(edges)

NoEdges == [l \in {} |-> None]

\* SuffixTrieNode(suffix_link): the arena after allocating one more node.
NewEdges(es) == Append(es, NoEdges)

NewLinks(ls, link) == Append(ls, link)

\* node.add_edge(label, child): insert or overwrite the mapping of label.
add_edge(es, node, label, child) ==
    [es EXCEPT ![node] =
        [l \in (DOMAIN es[node]) \cup {label} |->
            IF l = label THEN child ELSE es[node][l]]]

contains_edge_always_false(node, label) == FALSE

\* node.contains_edge(label)
contains_edge(node, label) == label \in DOMAIN edges[node]

\* node.get_edge(label): the child, or KeyError when label is not mapped.
get_edge(node, label) ==
    IF label \in DOMAIN edges[node] THEN edges[node][label] ELSE KeyError

\* node.edge_list()
edge_list(node) == {edges[node][l] : l \in DOMAIN edges[node]}

\* node.add_link(suffix_link)
add_link(ls, node, link) == [ls EXCEPT ![node] = link]

\* node.get_link()
get_link(node) == suffix_link[node]

(* ----------------------------------------------------------------- build *)

NoResult == [op |-> "none", s |-> <<>>, raised |-> None, value |-> FALSE]

Init ==
    /\ string \in Strings
    /\ pc = "start"
    /\ edges = <<>>
    /\ suffix_link = <<>>
    /\ root = None
    /\ deepest = None
    /\ curr = None
    /\ prev = None
    /\ character = ""
    /\ idx = 0
    /\ raised = None
    /\ result = NoResult

\* Lines 108-114: the root, and for a non-empty string its first child.
BuildStart ==
    /\ pc = "start"
    /\ root' = 1
    /\ IF Len(string) = 0
       THEN /\ edges' = NewEdges(edges)
            /\ suffix_link' = NewLinks(suffix_link, None)
            /\ deepest' = deepest
            /\ idx' = idx
            /\ pc' = "built"
       ELSE /\ edges' = add_edge(NewEdges(NewEdges(edges)), 1, string[1], 2)
            /\ suffix_link' = NewLinks(NewLinks(suffix_link, None), 1)
            /\ deepest' = 2
            /\ idx' = 2
            /\ pc' = "for"
    /\ UNCHANGED <<string, curr, prev, character, raised, result>>

\* Lines 120-122 and 149: the next character of string[1:], or the return.
ForNext ==
    /\ pc = "for"
    /\ IF idx <= Len(string)
       THEN /\ character' = string[idx]
            /\ curr' = deepest
            /\ prev' = None
            /\ pc' = "while"
       ELSE /\ pc' = "built"
            /\ UNCHANGED <<character, curr, prev>>
    /\ UNCHANGED <<string, edges, suffix_link, root, deepest, idx, raised,
                   result>>

\* Line 127: the condition of the inner loop.
WhileCond == curr # None /\ ~contains_edge(curr, character)

\* Lines 128-137: one iteration of the inner loop.
WhileStep ==
    /\ pc = "while"
    /\ WhileCond
    /\ LET child == Len(edges) + 1
       IN /\ edges' = add_edge(NewEdges(edges), curr, character, child)
          /\ suffix_link' =
                IF prev # None
                THEN add_link(NewLinks(suffix_link, None), prev, child)
                ELSE NewLinks(suffix_link, None)
          /\ prev' = child
          /\ curr' = get_link(curr)
    /\ UNCHANGED <<string, pc, root, deepest, character, idx, raised, result>>

ExistingChildLinkToCurr(node, label) == node

\* Line 143: the node the last created node is linked to.
ExistingChildLink(node, label) == get_edge(node, label)

NextDeepestIsPrev(node, label) == prev

\* Line 147: the child of the previous deepest node.
NextDeepest(node, label) == get_edge(node, label)

\* Lines 142-147: after the inner loop, the link of the last created node
\* and the new deepest node.
WhileExit ==
    /\ pc = "while"
    /\ ~WhileCond
    /\ IF curr # None /\ prev = None
       THEN \* prev.suffix_link on None
            /\ raised' = AttributeError
            /\ pc' = "raised"
            /\ UNCHANGED <<suffix_link, deepest, idx>>
       ELSE /\ suffix_link' =
                IF curr # None
                THEN add_link(suffix_link, prev,
                              ExistingChildLink(curr, character))
                ELSE suffix_link
            /\ IF NextDeepest(deepest, character) = KeyError
               THEN /\ raised' = KeyError
                    /\ pc' = "raised"
                    /\ UNCHANGED <<deepest, idx>>
               ELSE /\ deepest' = NextDeepest(deepest, character)
                    /\ idx' = idx + 1
                    /\ pc' = "for"
                    /\ UNCHANGED raised
    /\ UNCHANGED <<string, edges, root, curr, prev, character, result>>

(* --------------------------------------------------------------- queries *)

\* What a query gives back: the exception it raised (None when it returned)
\* and the value it returned.
Returned(v) == [raised |-> None, value |-> v]

Raised(e, v) == [raised |-> e, value |-> v]

\* Lines 165-171: the loop of substring, from node c with s left to consume.
RECURSIVE substring_loop(_, _)
substring_loop(c, s) ==
    IF s = <<>> THEN Returned(TRUE)
    ELSE LET nxt == get_edge(c, Head(s))
         IN IF nxt = KeyError THEN Raised(KeyError, FALSE)
            ELSE IF nxt = None THEN Returned(FALSE)
            ELSE substring_loop(nxt, Tail(s))

substring(suffix_trie, search_str) == substring_loop(suffix_trie, search_str)

\* Lines 187-194: the loop of suffix; every lookup is made on suffix_trie.
RECURSIVE suffix_loop(_, _, _)
suffix_loop(suffix_trie, c, s) ==
    IF s = <<>> THEN Returned(edge_list(c) = {})
    ELSE LET nxt == get_edge(suffix_trie, Head(s))
         IN IF nxt = KeyError THEN Raised(KeyError, FALSE)
            ELSE IF nxt = None THEN Returned(FALSE)
            ELSE suffix_loop(suffix_trie, nxt, Tail(s))

suffix(suffix_trie, suffix_str) == suffix_loop(suffix_trie, suffix_trie, suffix_str)

RECURSIVE _count_nodes(_)
RECURSIVE _count_nodes_sum(_, _)
_count_nodes(suffix_trie) ==
    1 + _count_nodes_sum(suffix_trie, DOMAIN edges[suffix_trie])

_count_nodes_sum(node, labels) ==
    IF labels = {} THEN 0
    ELSE LET l == CHOOSE x \in labels : TRUE
         IN _count_nodes(edges[node][l]) + _count_nodes_sum(node, labels \ {l})

\* Lines 230-233: the number of leaves below suffix_trie.
RECURSIVE _get_leaves(_)
RECURSIVE _get_leaves_sum(_, _)
_get_leaves(suffix_trie) ==
    IF edge_list(suffix_trie) = {} THEN 1
    ELSE _get_leaves_sum(suffix_trie, DOMAIN edges[suffix_trie])

\* sum([_get_leaves(x) for x in suffix_trie.edge_list()])
_get_leaves_sum(node, labels) ==
    IF labels = {} THEN 0
    ELSE LET l == CHOOSE x \in labels : TRUE
         IN _get_leaves(edges[node][l]) + _get_leaves_sum(node, labels \ {l})

\* Lines 210-217: the loop of occurrences, then the count from suffix_trie.
RECURSIVE occurrences_loop(_, _, _)
occurrences_loop(suffix_trie, c, s) ==
    IF s = <<>> THEN Returned(_get_leaves(suffix_trie))
    ELSE LET nxt == get_edge(c, Head(s))
         IN IF nxt = KeyError THEN Raised(KeyError, 0)
            ELSE IF nxt = None THEN Returned(0)
            ELSE occurrences_loop(suffix_trie, nxt, Tail(s))

occurrences(suffix_trie, search_str) ==
    occurrences_loop(suffix_trie, suffix_trie, search_str)

Answer(op, s, r) == [op |-> op, s |-> s, raised |-> r.raised, value |-> r.value]

\* A caller asks substring(root, s) of the built trie.
Substring ==
    /\ pc = "built"
    /\ \E s \in Queries : result' = Answer("substring", s, substring(root, s))
    /\ pc' = "returned"
    /\ UNCHANGED <<string, edges, suffix_link, root, deepest, curr, prev,
                   character, idx, raised>>

\* A caller asks suffix(root, s) of the built trie.
Suffix ==
    /\ pc = "built"
    /\ \E s \in Queries : result' = Answer("suffix", s, suffix(root, s))
    /\ pc' = "returned"
    /\ UNCHANGED <<string, edges, suffix_link, root, deepest, curr, prev,
                   character, idx, raised>>

\* A caller asks occurrences(root, s) of the built trie.
Occurrences ==
    /\ pc = "built"
    /\ \E s \in Queries :
          result' = Answer("occurrences", s, occurrences(root, s))
    /\ pc' = "returned"
    /\ UNCHANGED <<string, edges, suffix_link, root, deepest, curr, prev,
                   character, idx, raised>>

\* The caller drops the answer and may ask again.
NextQuery ==
    /\ pc = "returned"
    /\ result' = NoResult
    /\ pc' = "built"
    /\ UNCHANGED <<string, edges, suffix_link, root, deepest, curr, prev,
                   character, idx, raised>>

Next ==
    \/ BuildStart
    \/ ForNext
    \/ WhileStep
    \/ WhileExit
    \/ Substring
    \/ Suffix
    \/ Occurrences
    \/ NextQuery

Spec == Init /\ [][Next]_vars

\* The construction alone, up to the return of the root.
BuildNext == BuildStart \/ ForNext \/ WhileStep \/ WhileExit

SpecBuild == Init /\ [][BuildNext]_vars

(* ------------------------------------------- vocabulary of the properties *)

IsPrefix(p, t) == Len(p) <= Len(t) /\ SubSeq(t, 1, Len(p)) = p

IsSuffix(s, t) ==
    Len(s) <= Len(t) /\ SubSeq(t, Len(t) - Len(s) + 1, Len(t)) = s

IsSubstring(s, t) ==
    \E i \in 0..(Len(t) - Len(s)) : SubSeq(t, i + 1, i + Len(s)) = s

Distinct(t) == \A i, j \in 1..Len(t) : i # j => t[i] # t[j]

Min(a, b) == IF a <= b THEN a ELSE b

\* The node reached from node by the path s, None when an edge is missing.
RECURSIVE Walk(_, _)
Walk(node, s) ==
    IF s = <<>> THEN node
    ELSE IF Head(s) \in DOMAIN edges[node]
         THEN Walk(edges[node][Head(s)], Tail(s))
         ELSE None

\* The edges that lead to node n, as <<parent, label>>.
Parents(n) ==
    {pl \in Nodes \X Alphabet :
        pl[2] \in DOMAIN edges[pl[1]] /\ edges[pl[1]][pl[2]] = n}

\* The labels on the way from the root to node n.
RECURSIVE Path(_)
Path(n) ==
    IF Parents(n) = {} THEN <<>>
    ELSE LET pl == CHOOSE x \in Parents(n) : TRUE
         IN Append(Path(pl[1]), pl[2])

IsLeaf(n) == DOMAIN edges[n] = {}

\* The number of leaves in the subtree of node n.
LeavesBelow(n) ==
    Cardinality({m \in Nodes : IsLeaf(m) /\ IsPrefix(Path(n), Path(m))})

TotalLeaves == Cardinality({m \in Nodes : IsLeaf(m)})

Built == pc \in {"built", "returned"}

(* ------------------------------------------------------------- properties *)

\* C1: substring(build(t), s) returns true for every contiguous substring s
\* of t, the empty sequence and t itself included.
C1_SubstringOfEverySubstring ==
    (result.op = "substring" /\ IsSubstring(result.s, string))
        => (result.raised = None /\ result.value = TRUE)

\* C2: a query whose walk reaches a node without an edge for the next symbol
\* ends with a negative result and not with a fault: substring returns False
\* and occurrences returns 0.
C2_MissingEdgeIsNegative ==
    (result.op \in {"substring", "occurrences"} /\ Walk(root, result.s) = None)
        => /\ result.raised = None
           /\ result.op = "substring" => result.value = FALSE
           /\ result.op = "occurrences" => result.value = 0

\* C3: suffix(build(t), s) returns true exactly when s is a suffix of t, the
\* empty sequence being a suffix of every t.
C3_SuffixIffSuffixOfInput ==
    result.op = "suffix"
        => (result.raised = None /\ result.value = IsSuffix(result.s, string))

\* C4: when the walk of s succeeds, occurrences(root, s) returns the number
\* of leaves in the subtree of the node where the walk ended.
C4_OccurrencesCountsSubtree ==
    (result.op = "occurrences" /\ Walk(root, result.s) # None)
        => (result.raised = None
            /\ result.value = LeavesBelow(Walk(root, result.s)))

\* C5: when build returns, every node other than the root has a suffix link
\* and the root has none.
C5_EveryNodeLinked ==
    Built => /\ suffix_link[root] = None
             /\ \A n \in Nodes \ {root} : suffix_link[n] # None

\* C6: substring(build(t), p) is true for every prefix p of t; after i
\* symbols are consumed the deepest node is the node at the path t[0..i-1].
C6_PrefixRoundTrip ==
    /\ (result.op = "substring" /\ IsPrefix(result.s, string))
            => (result.raised = None /\ result.value = TRUE)
    /\ pc = "for" => deepest = Walk(root, SubSeq(string, 1, idx - 1))

C6_Witness ==
    /\ result.op = "substring"
    /\ IsPrefix(result.s, string)
    /\ Len(result.s) >= 3
    /\ result.value = TRUE

C8_SuffixContinuesWalk ==
    (result.op = "suffix" /\ result.raised = None)
        => result.value = (Walk(root, result.s) # None
                           /\ IsLeaf(Walk(root, result.s)))

\* Every suffix link set so far leads from the node at path xb to the node
\* at path b.
LinksRight ==
    \A n \in Nodes :
        suffix_link[n] # None
            => /\ suffix_link[n] \in Nodes
               /\ Path(n) # <<>>
               /\ Path(suffix_link[n]) = Tail(Path(n))

\* A suffix link that is set keeps its target.
NoRepoint ==
    \A n \in Nodes : suffix_link[n] # None => suffix_link'[n] = suffix_link[n]

\* C9: during build and in the returned graph every suffix link that is set
\* leads from the node at path xb to the node at path b, one level shallower,
\* and a suffix link is never re-pointed once set.
C9_SuffixLinksRight == []LinksRight /\ [][NoRepoint]_vars

C9_Witness ==
    /\ pc = "for"
    /\ curr # None
    /\ prev # None
    /\ Len(Path(prev)) >= 2
    /\ suffix_link[prev] = get_edge(curr, character)

\* C10: at the start of every outer step the deepest node is a leaf, so the
\* inner loop runs at least once, build raises nothing (prev is set when the
\* walk stops at an existing edge, deepest.get_edge finds its edge), and no
\* edge is overwritten: every node but the root keeps its one incoming edge.
C10_DeepestIsLeaf ==
    /\ pc = "for" => IsLeaf(deepest)
    /\ (pc = "while" /\ prev = None) => WhileCond
    /\ raised = None
    /\ root # None => \A n \in Nodes \ {root} : Cardinality(Parents(n)) = 1

C10_Witness ==
    /\ pc = "for"
    /\ idx > 3
    /\ curr # None
    /\ prev # None
    /\ IsLeaf(deepest)

====
